---------------------------- MODULE Spec2Model ----------------------------
(***************************************************************************)
(* Model of two Sverchok nodes:                                            *)
(*   nodes/curve/intersect_curves.py   SvIntersectNurbsCurvesNode          *)
(*   nodes/generator/icosphere.py      SvIcosphereNode                     *)
(*                                                                         *)
(* Four specifications share the module:                                   *)
(*   SpecFilter  - the pure function _filter applied to bounded inputs     *)
(*   SpecMatch   - the pure function match applied to bounded inputs       *)
(*   Spec        - SvIntersectNurbsCurvesNode.process, one step per loop   *)
(*                 iteration                                               *)
(*   SpecIco     - the icosphere node's property setters and process_data  *)
(*                                                                         *)
(* Lengths are in units of 1e-4 world units, so the deduplication          *)
(* threshold 1e-4 is 1 and points have integer coordinates.                *)
(***************************************************************************)
EXTENDS Integers, Sequences, FiniteSets

VARIABLES
    \* SpecFilter
    f_pc, f_points, f_result,
    \* SpecMatch
    m_pc, m_matching, m_curves1, m_curves2, m_pairs,
    \* Spec (process)
    pc, linked, implementation, matching, single, split,
    curve1_s, curve2_s, row, k, new_points, points_out,
    output, output_set, error, to_nurbs_calls, searched, flats,
    \* SpecIco
    ico_pc, subdivisions, subdivisions_max, last

filterVars  == <<f_pc, f_points, f_result>>
matchVars   == <<m_pc, m_matching, m_curves1, m_curves2, m_pairs>>
processVars == <<pc, linked, implementation, matching, single, split,
                 curve1_s, curve2_s, row, k, new_points, points_out,
                 output, output_set, error, to_nurbs_calls, searched, flats>>
icoVars     == <<ico_pc, subdivisions, subdivisions_max, last>>
vars        == <<filterVars, matchVars, processVars, icoVars>>

\* Python's None where a curve is expected (curves are tuples).
None == <<>>

Min(a, b) == IF a <= b THEN a ELSE b
Max(a, b) == IF a >= b THEN a ELSE b

\* All sequences over S of length lo..hi.
SeqsOf(S, lo, hi) == UNION {[1..n -> S] : n \in lo..hi}

----------------------------------------------------------------------------
(* Bounds of the model.                                                    *)

\* Largest x coordinate of a point handed to _filter (units of 1e-4).
MaxCoord == 2
\* Longest point sequence handed to _filter.
MaxPoints == 3
\* Longest curve sequence handed to match in SpecMatch.
MaxCurves == 3
\* Most rows of a nested input collection of process.
MaxRows == 2
\* Most curves in one row of a nested input collection of process.
MaxRow == 2
\* Largest subdivision level offered to the icosphere node.
MaxSubdiv == 6
\* Most items in one process_data call.
MaxItems == 2

----------------------------------------------------------------------------
(* _filter: intersect_curves.py 107-118                                    *)

\* The threshold 1e-4 of line 115, in units of 1e-4, squared.
Threshold2 == 1

\* (Vector(p) - Vector(prev)).length, squared (line 114).
Dist2(p, q) ==
    (p[1] - q[1]) * (p[1] - q[1]) + (p[2] - q[2]) * (p[2] - q[2])
        + (p[3] - q[3]) * (p[3] - q[3])

\* r > 1e-4 (line 115), on squared lengths.
Far(p, q) == Dist2(p, q) > Threshold2

\* A plausible slip: >= in place of >.
FarOrEqual(p, q) == Dist2(p, q) >= Threshold2

\* The comparison of line 115.
Exceeds(p, q) == Far(p, q)

\* Line 117: prev = p, executed for every point, kept or dropped.
NextPrev(p, prev, kept) == p

\* The loop of lines 113-117 from index i on, with the loop's state.
RECURSIVE FilterLoop(_, _, _, _)
FilterLoop(points, i, prev, result) ==
    IF i > Len(points) THEN result
    ELSE LET p    == points[i]
             kept == Exceeds(p, prev)
         IN  FilterLoop(points, i + 1, NextPrev(p, prev, kept),
                        IF kept THEN Append(result, p) ELSE result)

\* def _filter(self, points), lines 107-118.
_filter(points) ==
    IF points = <<>> THEN points
    ELSE FilterLoop(points, 2, points[1], <<points[1]>>)

Points == {<<x, y, 0>> : x \in 0..MaxCoord, y \in 0..1}

FilterInit ==
    /\ f_pc = "call"
    /\ f_points \in SeqsOf(Points, 0, MaxPoints)
    /\ f_result = <<>>

FilterCall ==
    /\ f_pc = "call"
    /\ f_result' = _filter(f_points)
    /\ f_pc' = "returned"
    /\ UNCHANGED <<f_points, matchVars, processVars, icoVars>>

FilterIdle == f_pc = "idle" /\ f_points = <<>> /\ f_result = <<>>

----------------------------------------------------------------------------
(* match: intersect_curves.py 134-138                                      *)

\* sverchok.data_structure.zip_long_repeat for two lists: index-wise zip,
\* the shorter list extended by repeating its last element; an empty list
\* has no last element to repeat and gives no pairs.
zip_long_repeat(l1, l2) ==
    IF l1 = <<>> \/ l2 = <<>> THEN <<>>
    ELSE [i \in 1..Max(Len(l1), Len(l2)) |->
            <<l1[Min(i, Len(l1))], l2[Min(i, Len(l2))]>>]

\* The inner loop of line 138 for one c2: (c1, c2) for c1 in curves1.
CrossInner(curves1, c2) == [i \in 1..Len(curves1) |-> <<curves1[i], c2>>]

\* A plausible slip: the loops swapped (for c1 in curves1 for c2 in curves2).
RECURSIVE CrossSwapped(_, _, _)
CrossSwapped(curves1, curves2, i) ==
    IF i > Len(curves1) THEN <<>>
    ELSE [j \in 1..Len(curves2) |-> <<curves1[i], curves2[j]>>]
            \o CrossSwapped(curves1, curves2, i + 1)

\* The outer loop of line 138 from index j on: for c2 in curves2.
RECURSIVE CrossOuter(_, _, _)
CrossOuter(curves1, curves2, j) ==
    IF j > Len(curves2) THEN <<>>
    ELSE CrossInner(curves1, curves2[j]) \o CrossOuter(curves1, curves2, j + 1)

\* Line 138.
cross(curves1, curves2) == CrossOuter(curves1, curves2, 1)

\* A plausible slip: the branches of match exchanged.
match_swapped(mode, curves1, curves2) ==
    IF mode = "LONG" THEN cross(curves1, curves2)
    ELSE zip_long_repeat(curves1, curves2)

\* def match(self, curves1, curves2), lines 134-138; mode is self.matching.
match(mode, curves1, curves2) ==
    IF mode = "LONG" THEN zip_long_repeat(curves1, curves2)
    ELSE cross(curves1, curves2)

\* match_methods, lines 48-51.
match_methods == {"LONG", "CROSS"}

CurveNames == {"a", "b", "c"}

MatchInit ==
    /\ m_pc = "call"
    /\ m_matching \in match_methods
    /\ m_curves1 \in SeqsOf(CurveNames, 0, MaxCurves)
    /\ m_curves2 \in SeqsOf(CurveNames, 0, MaxCurves)
    /\ m_pairs = <<>>

MatchCall ==
    /\ m_pc = "call"
    /\ m_pairs' = match(m_matching, m_curves1, m_curves2)
    /\ m_pc' = "returned"
    /\ UNCHANGED <<m_matching, m_curves1, m_curves2>>
    /\ UNCHANGED <<filterVars, processVars, icoVars>>

MatchIdle ==
    /\ m_pc = "idle" /\ m_matching = "LONG"
    /\ m_curves1 = <<>> /\ m_curves2 = <<>> /\ m_pairs = <<>>

----------------------------------------------------------------------------
(* process: intersect_curves.py 140-179, one action per loop iteration     *)

\* The raw point sequence a search backend finds for a pair of NURBS
\* curves (intersect_nurbs_curves, or FreeCAD's intersectCC): a fixed table
\* over the curves' positions <<side, row, index>>.  It covers: no point; one
\* point; a far point, then a point and two drifting near-duplicates of it;
\* a point, a near-duplicate and a far point.
RawPoints(c1, c2) ==
    IF c1 = None \/ c2 = None THEN <<>>
    ELSE LET sel == (c1[2] + c1[3] + c2[3]) % 4
             x   == 10 * c1[3]
             y   == 10 * c2[3]
             z   == 10 * (c1[2] + c2[2])
         IN  CASE sel = 0 -> <<>>
               [] sel = 1 -> << <<x, y, z>> >>
               [] sel = 2 -> << <<x, y, z + 3>>, <<x, y, z>>,
                                <<x, y, z + 1>>, <<x, y, z + 2>> >>
               [] OTHER   -> << <<x, y, z>>, <<x, y, z + 1>>, <<x, y, z + 3>> >>

\* def process_native, lines 120-125.
process_native(curve1, curve2) == _filter(RawPoints(curve1, curve2))

\* def process_freecad, lines 127-132.
process_freecad(sv_curve1, sv_curve2) == _filter(RawPoints(sv_curve1, sv_curve2))

\* Lines 162-165: the backend chosen by self.implementation.
Backend(impl, curve1, curve2) ==
    IF impl = "NATIVE" THEN process_native(curve1, curve2)
    ELSE process_freecad(curve1, curve2)

\* A plausible slip: the last point taken in single mode.
SingleLast(flag, ps) ==
    IF flag THEN (IF Len(ps) >= 1 THEN ps[Len(ps)] ELSE ps) ELSE ps

\* Lines 167-169: if self.single: if len(ps) >= 1: ps = ps[0].
Single(flag, ps) ==
    IF flag THEN (IF Len(ps) >= 1 THEN ps[1] ELSE ps) ELSE ps

\* A plausible slip: the check of to_nurbs's result left out.
NeverFails(nurbs) == FALSE

\* Lines 156 and 159: curve is None.
Fails(nurbs) == nurbs = None

\* A plausible slip: results collected at the front.
Prepend(list, x) == <<x>> \o list

\* Lines 171 and 177: list.append.
Collect(list, x) == Append(list, x)

\* A plausible slip: the other row's length taken.
SplitCountOther(curve1s, curve2s) == Len(curve2s)

\* Line 174: n = len(curve1s).
SplitCount(curve1s, curve2s) == Len(curve1s)

\* Line 173: if self.split (self.matching is not consulted).
ShouldSplit(split_flag, mode) == split_flag

\* sverchok.data_structure.split_by_count as the specification describes
\* it: the list regrouped into n contiguous chunks.
split_by_count(list, n) ==
    LET size == (Len(list) + n - 1) \div n
    IN  [i \in 1..n |->
            SubSeq(list, (i - 1) * size + 1, Min(i * size, Len(list)))]

\* Lines 173-175.
Reshape(split_flag, mode, list, curve1s, curve2s) ==
    IF ShouldSplit(split_flag, mode)
    THEN split_by_count(list, SplitCount(curve1s, curve2s))
    ELSE list

\* Line 152: the rows the outer loop visits.
Rows == zip_long_repeat(curve1_s, curve2_s)

\* Line 154: the pairs the inner loop visits in the current row.
Pairs == match(matching, Rows[row][1], Rows[row][2])

\* A nested input collection (nesting level 2, as ensure_nesting_level
\* leaves it) whose rows have the lengths lens; a curve is named by its
\* position <<side, row, index>>.
Nested(side, lens) ==
    [r \in 1..Len(lens) |-> [i \in 1..lens[r] |-> <<side, r, i>>]]

\* Curve1: 1..MaxRows rows of 1..MaxRow curves each, row by row.
Inputs1 == {Nested(1, lens) : lens \in SeqsOf(1..MaxRow, 1, MaxRows)}

\* Curve2: 1..MaxRows rows; the rows of one collection are equally long.
Inputs2 == {Nested(2, [r \in 1..n |-> len]) : n \in 1..MaxRows, len \in 1..MaxRow}

ProcessInit ==
    /\ pc = "start"
    /\ linked = FALSE
    /\ implementation \in {"FREECAD", "NATIVE"}
    /\ matching \in match_methods
    /\ single \in BOOLEAN
    /\ split \in BOOLEAN
    /\ curve1_s \in Inputs1
    /\ curve2_s \in Inputs2
    /\ row = 1 /\ k = 1
    /\ new_points = <<>> /\ points_out = <<>>
    /\ output = <<>> /\ output_set = FALSE /\ error = ""
    /\ to_nurbs_calls = <<>> /\ searched = <<>> /\ flats = <<>>

\* Lines 141-150: the early return when no output is linked, else the
\* inputs are read and points_out starts empty.
ProcessBegin ==
    /\ pc = "start"
    /\ \E is_linked \in BOOLEAN :
        /\ linked' = is_linked
        /\ pc' = IF is_linked THEN "loop" ELSE "returned"
    /\ points_out' = <<>> /\ new_points' = <<>>
    /\ row' = 1 /\ k' = 1
    /\ UNCHANGED <<implementation, matching, single, split, curve1_s, curve2_s,
                   output, output_set, error, to_nurbs_calls, searched, flats>>
    /\ UNCHANGED <<filterVars, matchVars, icoVars>>

\* Lines 154-171: one iteration of the inner loop.  to_nurbs answers with
\* the curve's NURBS form or with None.
PairStep ==
    /\ pc = "loop" /\ row <= Len(Rows) /\ k <= Len(Pairs)
    /\ \E ok1 \in BOOLEAN, ok2 \in BOOLEAN :
        LET curve1 == IF ok1 THEN Pairs[k][1] ELSE None
            curve2 == IF ok2 THEN Pairs[k][2] ELSE None
            call1  == [arg |-> Pairs[k][1], result |-> curve1]
            call2  == [arg |-> Pairs[k][2], result |-> curve2]
            ps     == Single(single, Backend(implementation, curve1, curve2))
        IN  IF Fails(curve1)
            THEN /\ pc' = "raised"
                 /\ error' = "Curve1 is not a NURBS"
                 /\ to_nurbs_calls' = Append(to_nurbs_calls, call1)
                 /\ UNCHANGED <<k, new_points, searched>>
            ELSE IF Fails(curve2)
            THEN /\ pc' = "raised"
                 /\ error' = "Curve2 is not a NURBS"
                 /\ to_nurbs_calls' = to_nurbs_calls \o <<call1, call2>>
                 /\ UNCHANGED <<k, new_points, searched>>
            ELSE /\ to_nurbs_calls' = to_nurbs_calls \o <<call1, call2>>
                 /\ searched' = Append(searched,
                        [impl |-> implementation, curve1 |-> curve1,
                         curve2 |-> curve2, row |-> row, k |-> k])
                 /\ new_points' = Collect(new_points, ps)
                 /\ k' = k + 1
                 /\ UNCHANGED <<pc, error>>
    /\ UNCHANGED <<linked, implementation, matching, single, split,
                   curve1_s, curve2_s, row, points_out, output, output_set,
                   flats>>
    /\ UNCHANGED <<filterVars, matchVars, icoVars>>

\* Lines 173-177: the row's list is reshaped and appended to points_out.
RowEnd ==
    /\ pc = "loop" /\ row <= Len(Rows) /\ k > Len(Pairs)
    /\ flats' = Append(flats, new_points)
    /\ points_out' = Collect(points_out,
            Reshape(split, matching, new_points, Rows[row][1], Rows[row][2]))
    /\ new_points' = <<>>
    /\ row' = row + 1 /\ k' = 1
    /\ UNCHANGED <<pc, linked, implementation, matching, single, split,
                   curve1_s, curve2_s, output, output_set, error,
                   to_nurbs_calls, searched>>
    /\ UNCHANGED <<filterVars, matchVars, icoVars>>

\* Line 179: self.outputs['Intersections'].sv_set(points_out).
ProcessEnd ==
    /\ pc = "loop" /\ row > Len(Rows)
    /\ output' = points_out /\ output_set' = TRUE
    /\ pc' = "done"
    /\ UNCHANGED <<linked, implementation, matching, single, split,
                   curve1_s, curve2_s, row, k, new_points, points_out, error,
                   to_nurbs_calls, searched, flats>>
    /\ UNCHANGED <<filterVars, matchVars, icoVars>>

ProcessIdle ==
    /\ pc = "idle" /\ linked = FALSE /\ implementation = "NATIVE"
    /\ matching = "LONG" /\ single = TRUE /\ split = TRUE
    /\ curve1_s = <<>> /\ curve2_s = <<>> /\ row = 1 /\ k = 1
    /\ new_points = <<>> /\ points_out = <<>>
    /\ output = <<>> /\ output_set = FALSE /\ error = ""
    /\ to_nurbs_calls = <<>> /\ searched = <<>> /\ flats = <<>>

----------------------------------------------------------------------------
(* SvIcosphereNode: icosphere.py 92-112, 130-131, 153-184                  *)

\* sv_init, line 131: self['subdivisions'] = 2.
InitialSubdivisions == 2
\* subdivisions_max, line 111: default = 5.
DefaultSubdivisionsMax == 5
\* subdivisions_max, line 111: min = 2.
MinSubdivisionsMax == 2
\* subdivisions, line 105: min = 0.
MinSubdivisions == 0

\* def set_subdivisions, lines 94-97: the value stored in self['subdivisions'].
Stored(value, maximum) == IF value > maximum THEN maximum ELSE value

\* A plausible slip: the level passed on unclamped.
LevelUnclamped(level, maximum) == level

\* Lines 168-169: if subdivisions > self.subdivisions_max: clamp.
Level(level, maximum) == IF level > maximum THEN maximum ELSE level

\* Lines 160-182: what process_data does for one item: the base icosahedron
\* for level 0 (no bmesh call), else bmesh.ops.create_icosphere with the
\* clamped level.  maximum is self.subdivisions_max as the item is processed.
Item(level, maximum) ==
    IF level = 0
    THEN [input |-> level, call |-> "icosahedron", level |-> 0,
          maximum |-> maximum]
    ELSE [input |-> level, call |-> "create_icosphere",
          level |-> Level(level, maximum), maximum |-> maximum]

IcoInit ==
    /\ ico_pc = "idle"
    /\ subdivisions = InitialSubdivisions
    /\ subdivisions_max = DefaultSubdivisionsMax
    /\ last = [op |-> "sv_init", arg |-> <<>>, out |-> <<>>]

\* The subdivisions property is assigned: set_subdivisions(value).
SetSubdivisions ==
    /\ ico_pc = "idle"
    /\ \E value \in MinSubdivisions..MaxSubdiv :
        /\ subdivisions' = Stored(value, subdivisions_max)
        /\ last' = [op |-> "set_subdivisions", arg |-> <<value>>, out |-> <<>>]
    /\ UNCHANGED <<ico_pc, subdivisions_max, filterVars, matchVars, processVars>>

\* The subdivisions_max property is assigned (no setter: the stored
\* subdivisions value is left as it is).
SetSubdivisionsMax ==
    /\ ico_pc = "idle"
    /\ \E value \in MinSubdivisionsMax..MaxSubdiv :
        /\ subdivisions_max' = value
        /\ last' = [op |-> "set_subdivisions_max", arg |-> <<value>>,
                    out |-> <<>>]
    /\ UNCHANGED <<ico_pc, subdivisions, filterVars, matchVars, processVars>>

\* def process_data, lines 153-156: the output lists start empty.
ProcessDataBegin ==
    /\ ico_pc = "idle"
    /\ ico_pc' = "loop"
    /\ last' = [op |-> "process_data", arg |-> <<>>, out |-> <<>>]
    /\ UNCHANGED <<subdivisions, subdivisions_max>>
    /\ UNCHANGED <<filterVars, matchVars, processVars>>

\* Lines 159-182: one iteration of the loop over zip(*params); level is the
\* item's subdivisions value (the stored property or a linked socket's).
ProcessDataItem ==
    /\ ico_pc = "loop"
    /\ Len(last.arg) < MaxItems
    /\ \E level \in MinSubdivisions..MaxSubdiv :
        last' = [op |-> "process_data", arg |-> Append(last.arg, level),
                 out |-> Append(last.out, Item(level, subdivisions_max))]
    /\ UNCHANGED <<ico_pc, subdivisions, subdivisions_max>>
    /\ UNCHANGED <<filterVars, matchVars, processVars>>

\* Line 184: return out_verts, out_edges, out_faces.
ProcessDataReturn ==
    /\ ico_pc = "loop"
    /\ ico_pc' = "idle"
    /\ UNCHANGED <<subdivisions, subdivisions_max, last>>
    /\ UNCHANGED <<filterVars, matchVars, processVars>>

IcoIdle ==
    /\ ico_pc = "off"
    /\ subdivisions = InitialSubdivisions
    /\ subdivisions_max = DefaultSubdivisionsMax
    /\ last = [op |-> "off", arg |-> <<>>, out |-> <<>>]

----------------------------------------------------------------------------
(* Specifications                                                          *)

InitFilter == FilterInit /\ MatchIdle /\ ProcessIdle /\ IcoIdle

SpecFilter == InitFilter /\ [][FilterCall]_vars

InitMatch == FilterIdle /\ MatchInit /\ ProcessIdle /\ IcoIdle

SpecMatch == InitMatch /\ [][MatchCall]_vars

Init == FilterIdle /\ MatchIdle /\ ProcessInit /\ IcoIdle

Next ==
    \/ ProcessBegin
    \/ PairStep
    \/ RowEnd
    \/ ProcessEnd

Spec == Init /\ [][Next]_vars

InitIco == FilterIdle /\ MatchIdle /\ ProcessIdle /\ IcoInit

NextIco ==
    \/ SetSubdivisions
    \/ SetSubdivisionsMax
    \/ ProcessDataBegin
    \/ ProcessDataItem
    \/ ProcessDataReturn

SpecIco == InitIco /\ [][NextIco]_vars

----------------------------------------------------------------------------
(* Claims about _filter, checked under SpecFilter                          *)

\* The reference filter of the specification's section 4.4: a later point
\* is compared with the last KEPT point.
RECURSIVE KeptRefLoop(_, _, _, _)
KeptRefLoop(points, i, kept_point, result) ==
    IF i > Len(points) THEN result
    ELSE IF Dist2(points[i], kept_point) > Threshold2
         THEN KeptRefLoop(points, i + 1, points[i], Append(result, points[i]))
         ELSE KeptRefLoop(points, i + 1, kept_point, result)

KeptRef(points) ==
    IF points = <<>> THEN <<>>
    ELSE KeptRefLoop(points, 2, points[1], <<points[1]>>)

\* The filter that compares a point with the input point just before it,
\* kept or dropped, by recursion on the last point.
RECURSIVE PrecedingRef(_)
PrecedingRef(points) ==
    IF Len(points) <= 1 THEN points
    ELSE LET n == Len(points)
         IN  PrecedingRef(SubSeq(points, 1, n - 1))
                \o (IF Dist2(points[n], points[n - 1]) > Threshold2
                    THEN <<points[n]>> ELSE <<>>)

\* C1 as stated: the output of _filter equals the last-kept reference
\* filter's, and every two adjacent output points are more than 1e-4 apart.
C1_OutputEqualsKeptReference ==
    f_pc = "returned" =>
        /\ f_result = KeptRef(f_points)
        /\ \A j \in 1..(Len(f_result) - 1) :
                Dist2(f_result[j + 1], f_result[j]) > Threshold2

\* The indices that start a run: the first, and every point more than 1e-4
\* from its predecessor in the input.
RunStarts(points) ==
    {i \in 1..Len(points) :
        i = 1 \/ Dist2(points[i], points[i - 1]) > Threshold2}

----------------------------------------------------------------------------
(* Claims about match, checked under SpecMatch                             *)

\* C3: with CROSS, match returns len(curves1) * len(curves2) pairs, the pair
\* at flat index k being (curves1[k mod len1], curves2[k div len1]).
C3_CrossIsCurves2Outer ==
    (m_pc = "returned" /\ m_matching = "CROSS") =>
        LET n1 == Len(m_curves1)
            n2 == Len(m_curves2)
        IN  /\ Len(m_pairs) = n1 * n2
            /\ \A kk \in 0..(n1 * n2 - 1) :
                    m_pairs[kk + 1] =
                        <<m_curves1[(kk % n1) + 1], m_curves2[(kk \div n1) + 1]>>

\* C3 witness: the specification's example, [a, b] against [c, a].
C3_Witness ==
    /\ m_pc = "returned" /\ m_matching = "CROSS"
    /\ m_curves1 = <<"a", "b">> /\ m_curves2 = <<"c", "a">>
    /\ m_pairs = << <<"a", "c">>, <<"b", "c">>, <<"a", "a">>, <<"b", "a">> >>

\* C4: with LONG and non-empty sequences, match returns max(len1, len2)
\* pairs; both sequences are walked index by index and the shorter one
\* stays on its last element.
C4_LongRepeatsLast ==
    (m_pc = "returned" /\ m_matching = "LONG"
        /\ m_curves1 # <<>> /\ m_curves2 # <<>>) =>
        LET n1 == Len(m_curves1)
            n2 == Len(m_curves2)
        IN  /\ Len(m_pairs) = (IF n1 >= n2 THEN n1 ELSE n2)
            /\ \A i \in 1..Len(m_pairs) :
                /\ m_pairs[i][1] = (IF i <= n1 THEN m_curves1[i] ELSE m_curves1[n1])
                /\ m_pairs[i][2] = (IF i <= n2 THEN m_curves2[i] ELSE m_curves2[n2])

\* C4 witness: the specification's example, [a, b, c] against [b, a].
C4_Witness ==
    /\ m_pc = "returned" /\ m_matching = "LONG"
    /\ m_curves1 = <<"a", "b", "c">> /\ m_curves2 = <<"b", "a">>
    /\ m_pairs = << <<"a", "b">>, <<"b", "a">>, <<"c", "a">> >>

----------------------------------------------------------------------------
(* Claims about process, checked under Spec                                *)

\* The rows of the two inputs that the r-th iteration of the outer loop pairs.
RowOf1(r) == curve1_s[IF r <= Len(curve1_s) THEN r ELSE Len(curve1_s)]
RowOf2(r) == curve2_s[IF r <= Len(curve2_s) THEN r ELSE Len(curve2_s)]

\* The entry collected for the i-th backend invocation: in the finished
\* row's flat list, or in the list of the row in progress.
EntryOf(i) ==
    LET s == searched[i]
    IN  IF s.row <= Len(flats) THEN flats[s.row][s.k] ELSE new_points[s.k]

C6_LongRowsStayFlat ==
    matching = "LONG" =>
        \A r \in 1..Len(points_out) : points_out[r] = flats[r]

\* C7: in single mode a pair's entry is the first point of its deduplicated
\* sequence, which is the first point the backend found, and an empty
\* sequence stays empty; with single mode off the entry is the whole
\* deduplicated sequence.
C7_SingleTakesFirstFound ==
    \A i \in 1..Len(searched) :
        LET raw   == RawPoints(searched[i].curve1, searched[i].curve2)
            dedup == PrecedingRef(raw)
        IN  IF single
            THEN /\ (dedup = <<>> => EntryOf(i) = <<>>)
                 /\ (dedup # <<>> => EntryOf(i) = dedup[1] /\ EntryOf(i) = raw[1])
            ELSE EntryOf(i) = dedup

\* C7 witness: a finished single-mode run with a pair whose first-found
\* point is neither its lowest nor its only point, and a pair with no point.
C7_Witness ==
    /\ pc = "done" /\ single
    /\ \E i \in 1..Len(searched) :
        LET raw == RawPoints(searched[i].curve1, searched[i].curve2)
        IN  /\ Len(raw) >= 3 /\ Len(PrecedingRef(raw)) >= 2
            /\ raw[1][3] > raw[2][3]
            /\ EntryOf(i) = raw[1]
    /\ \E i \in 1..Len(searched) :
        /\ RawPoints(searched[i].curve1, searched[i].curve2) = <<>>
        /\ EntryOf(i) = <<>>

\* C8: a backend is invoked only with two curves to_nurbs converted; once
\* to_nurbs has answered None the run has raised, that call was its last
\* step, nothing further can run and the output is never set.
C8_AdaptationFailureAbortsBatch ==
    /\ \A i \in 1..Len(searched) :
        /\ searched[i].curve1 # None /\ searched[i].curve2 # None
        /\ Len(to_nurbs_calls) >= 2 * i
        /\ to_nurbs_calls[2 * i - 1].result = searched[i].curve1
        /\ to_nurbs_calls[2 * i].result = searched[i].curve2
    /\ \A j \in 1..Len(to_nurbs_calls) :
        to_nurbs_calls[j].result = None =>
            /\ pc = "raised"
            /\ j = Len(to_nurbs_calls)
            /\ Len(searched) = (j - 1) \div 2
    /\ pc = "raised" =>
        /\ ~output_set /\ output = <<>>
        /\ ~ENABLED Next
    /\ output_set =>
        \A j \in 1..Len(to_nurbs_calls) : to_nurbs_calls[j].result # None

\* C8 witness: a run that raised on its second curve after a whole row and
\* a further pair had been searched; the output is unset.
C8_Witness ==
    /\ pc = "raised" /\ error = "Curve2 is not a NURBS"
    /\ Len(points_out) >= 1 /\ Len(new_points) >= 1
    /\ ~output_set

\* What the loop body collects for one pair.
ResultOf(pair) == Single(single, Backend(implementation, pair[1], pair[2]))

\* C9: the emitted output has max(len(curve1_s), len(curve2_s)) rows, row r
\* coming from the r-th pair of input rows (the shorter input staying on its
\* last row), and a row's flat list holds, in order, one entry per pair that
\* match returns.
C9_RowsAndEntriesInOrder ==
    /\ Len(flats) = Len(points_out)
    /\ (pc = "done" =>
            /\ output = points_out
            /\ Len(output) =
                (IF Len(curve1_s) >= Len(curve2_s) THEN Len(curve1_s)
                 ELSE Len(curve2_s)))
    /\ \A r \in 1..Len(flats) :
        LET pairs == match(matching, RowOf1(r), RowOf2(r))
        IN  /\ Len(flats[r]) = Len(pairs)
            /\ \A kk \in 1..Len(pairs) : flats[r][kk] = ResultOf(pairs[kk])
            /\ points_out[r] =
                    Reshape(split, matching, flats[r], RowOf1(r), RowOf2(r))
    /\ (pc \in {"loop", "raised"} /\ row <= Len(Rows)) =>
        LET pairs == match(matching, RowOf1(row), RowOf2(row))
        IN  /\ Len(new_points) = k - 1
            /\ \A kk \in 1..Len(new_points) : new_points[kk] = ResultOf(pairs[kk])

\* C9 witness: a finished run over inputs of one and two rows whose second
\* row collected two different results.
C9_Witness ==
    /\ pc = "done"
    /\ Len(curve1_s) = 1 /\ Len(curve2_s) = 2 /\ Len(output) = 2
    /\ Len(flats[2]) = 2 /\ flats[2][1] # flats[2][2]

----------------------------------------------------------------------------
(* Claim about the icosphere node, checked under SpecIco                   *)

\* C10: set_subdivisions(v) stores min(v, subdivisions_max); process_data
\* never hands create_icosphere a level above subdivisions_max, and answers
\* level 0 with the base icosahedron without calling create_icosphere.
C10_LevelNeverExceedsMax ==
    /\ last.op = "set_subdivisions" =>
        subdivisions =
            (IF last.arg[1] <= subdivisions_max THEN last.arg[1]
             ELSE subdivisions_max)
    /\ last.op = "process_data" =>
        /\ Len(last.out) = Len(last.arg)
        /\ \A i \in 1..Len(last.out) :
            /\ last.out[i].input = last.arg[i]
            /\ (last.arg[i] = 0 <=> last.out[i].call = "icosahedron")
            /\ last.out[i].call = "create_icosphere" =>
                /\ last.out[i].level <= subdivisions_max
                /\ last.out[i].level =
                    (IF last.arg[i] <= subdivisions_max THEN last.arg[i]
                     ELSE subdivisions_max)

\* C10 witness: subdivisions_max was lowered below the stored value, and
\* process_data has returned after receiving the stored value and a 0: the
\* first was clamped.
C10_Witness ==
    /\ ico_pc = "idle" /\ last.op = "process_data"
    /\ subdivisions > subdivisions_max
    /\ last.arg = <<subdivisions, 0>>
    /\ last.out[1].call = "create_icosphere"
    /\ last.out[1].level = subdivisions_max
    /\ last.out[2].call = "icosahedron"

=============================================================================
